---- MODULE Spec2Model ----
(***************************************************************************)
(* Planar convex hull engine of convex_hull_comparison.py: the geometry    *)
(* kernel, order-preserving deduplication, Jarvis March, Graham Scan and   *)
(* the boundary extension include_collinear_on_edges, driven as main()     *)
(* drives them.  Points are pairs <<x, y>> of integers.  Every arithmetic   *)
(* operation of the source is a floating-point operation: its exact result *)
(* is rounded to the nearest value with a significand of FloatBits bits,   *)
(* ties to even.  Small integers are within the exact range, as they are   *)
(* in the doubles of the source.                                           *)
(***************************************************************************)
EXTENDS Integers, Sequences, FiniteSets

\* ---------- bounds ----------

\* coordinates range over 0..GridMax
GridMax == 2

\* longest input list
MaxLen == 4

Coord == 0..GridMax

Grid == Coord \X Coord

Inputs == UNION {[1..k -> Grid] : k \in 0..MaxLen}

\* a grid of two rows, long enough for an edge to hold two points between its
\* ends
LineMax == 3

\* longest input list over the two rows
LineLen == 5

GridLine == (0..LineMax) \X (0..1)

\* the lists of distinct points of the two rows
InputsLine ==
    {s \in UNION {[1..k -> GridLine] : k \in 0..LineLen} :
        \A i, j \in 1..Len(s) : i # j => s[i] # s[j]}

\* longest input list of the repeated and of the concurrent runs
SmallLen == 3

InputsSmall == UNION {[1..k -> Grid] : k \in 0..SmallLen}

\* how many times the calls are made again
MaxRepeat == 1

\* float('inf') as a coordinate.  It is used only in lists of at most 2
\* points, on which the engines apply nothing but == to coordinates, and
\* inf == inf.
Inf == GridMax + 1

NonFinite(pt) == pt[1] = Inf \/ pt[2] = Inf

GridNonFinite == (Coord \cup {Inf}) \X (Coord \cup {Inf})

\* the lists of 1 or 2 points that hold a non-finite point
InputsNonFinite ==
    {s \in UNION {[1..k -> GridNonFinite] : k \in 1..2} : \E i \in 1..Len(s) : NonFinite(s[i])}

\* value of a local that has not been assigned yet
None == <<>>

Range(s) == {s[k] : k \in 1..Len(s)}

\* ---------- floating-point arithmetic ----------

\* bits of the significand (53 in the doubles of the source)
FloatBits == 5

\* every integer of magnitude up to ExactMax is a floating-point value
ExactMax == 2 ^ FloatBits

RECURSIVE ulp(_, _)
\* spacing of the floating-point values around n >= 0, from the candidate u on
ulp(n, u) == IF n < ExactMax * u THEN u ELSE ulp(n, 2 * u)

\* n >= 0 rounded to the nearest floating-point value, ties to the even
\* significand
round_nonneg(n) ==
    IF n <= ExactMax THEN n
    ELSE LET u == ulp(n, 1)
             lo == (n \div u) * u
             rem == n - lo
         IN  IF 2 * rem < u THEN lo
             ELSE IF 2 * rem > u THEN lo + u
             ELSE IF (lo \div u) % 2 = 0 THEN lo
             ELSE lo + u

\* the floating-point result of an operation whose exact result is n
round(n) == IF n >= 0 THEN round_nonneg(n) ELSE 0 - round_nonneg(0 - n)

fsub(x, y) == round(x - y)

fadd(x, y) == round(x + y)

fmul(x, y) == round(x * y)

\* ---------- Geometry helpers ----------

orientation(a, b, c) ==
    LET val == fsub(fmul(fsub(b[1], a[1]), fsub(c[2], a[2])),
                    fmul(fsub(b[2], a[2]), fsub(c[1], a[1])))
    IN  IF val > 0 THEN 1 ELSE IF val < 0 THEN -1 ELSE 0

dist_sq(a, b) ==
    LET dx == fsub(a[1], b[1])
        dy == fsub(a[2], b[2])
    IN  fadd(fmul(dx, dx), fmul(dy, dy))

Min2(x, y) == IF x <= y THEN x ELSE y

Max2(x, y) == IF x >= y THEN x ELSE y

\* The source widens the bounding box by 1e-9 on each side.  Coordinates are
\* integers here, and for integers  lo - 1e-9 <= c  is  lo <= c  and
\* c <= hi + 1e-9  is  c <= hi.
on_segment(a, b, c) ==
    /\ Min2(a[1], b[1]) <= c[1] /\ c[1] <= Max2(a[1], b[1])
    /\ Min2(a[2], b[2]) <= c[2] /\ c[2] <= Max2(a[2], b[2])

\* ---------- Deduplication: list(dict.fromkeys(points)) ----------

RECURSIVE fromkeys(_, _)
\* dict.fromkeys inserts the keys left to right; a key already present keeps
\* its first position.  acc is the dict's key order so far.
fromkeys(s, acc) ==
    IF s = <<>> THEN acc
    ELSE fromkeys(Tail(s), IF Head(s) \in Range(acc) THEN acc ELSE Append(acc, Head(s)))

dedup_identity(points_) == points_

dedup(points_) == fromkeys(points_, <<>>)

\* ---------- sorting ----------

\* Stable sort, as list.sort / sorted do it.  less[i][j] says that the key of
\* s[i] is smaller than the key of s[j]; the element at index i goes after
\* every element with a smaller key and after every earlier element with an
\* equal key.
StableSort(s, less) ==
    LET n == Len(s)
        rank(i) == 1 + Cardinality({j \in 1..n :
                        \/ less[j][i]
                        \/ (~less[i][j] /\ j < i)})
    IN  [k \in 1..n |-> s[CHOOSE i \in 1..n : rank(i) = k]]

\* ---------- Jarvis March helpers ----------

\* lexicographic order on (x, y), the key of line 78
key_xy_less(a, b) == a[1] < b[1] \/ (a[1] = b[1] /\ a[2] < b[2])

min_by_xy_lowest(pts) ==
    pts[CHOOSE i \in 1..Len(pts) :
            \A j \in 1..Len(pts) :
                j # i => \/ pts[i][2] < pts[j][2]
                         \/ (pts[i][2] = pts[j][2] /\ pts[i][1] <= pts[j][1])]

\* min(pts, key=...) returns the first element whose key no other undercuts
min_by_xy(pts) ==
    pts[CHOOSE i \in 1..Len(pts) :
            /\ \A j \in 1..Len(pts) : ~key_xy_less(pts[j], pts[i])
            /\ \A j \in 1..(i - 1) : key_xy_less(pts[i], pts[j])]

\* q = pts[0] if pts[0] != p else pts[1]
initial_candidate(pts, p_) == IF pts[1] # p_ THEN pts[1] ELSE pts[2]

farther_nearest(p_, q_, r) == dist_sq(p_, r) < dist_sq(p_, q_)

\* the collinear tie-break of line 94
farther(p_, q_, r) == dist_sq(p_, r) > dist_sq(p_, q_)

scan_step_no_tie(p_, q_, r) ==
    IF orientation(p_, q_, r) = 1 THEN r ELSE q_

\* body of the for loop, lines 88-95, for r # p: the new candidate
scan_step(p_, q_, r) ==
    LET o == orientation(p_, q_, r)
    IN  IF o = 1 THEN r
        ELSE IF o = 0 /\ farther(p_, q_, r) THEN r
        ELSE q_

shortcut_upto1(n) == n <= 1

\* the n <= 2 shortcut of lines 74 and 109 (n = 0 returns [] = pts as well)
shortcut(n) == n <= 2

\* ---------- Graham Scan helpers ----------

key_yx_less(a, b) == a[2] < b[2] \/ (a[2] = b[2] /\ a[1] < b[1])

min_by_yx_corner(pts) ==
    <<CHOOSE x \in {pts[i][1] : i \in 1..Len(pts)} : \A i \in 1..Len(pts) : x <= pts[i][1],
      CHOOSE y \in {pts[i][2] : i \in 1..Len(pts)} : \A i \in 1..Len(pts) : y <= pts[i][2]>>

\* pivot = min(pts, key=lambda p: (p[1], p[0]))
min_by_yx(pts) ==
    pts[CHOOSE i \in 1..Len(pts) :
            /\ \A j \in 1..Len(pts) : ~key_yx_less(pts[j], pts[i])
            /\ \A j \in 1..(i - 1) : key_yx_less(pts[i], pts[j])]

\* Order of math.atan2(dy, dx) values.  atan2 is increasing in the direction
\* of the vector: (-pi, 0) below the x axis, 0 on the positive x axis (and for
\* the zero vector), (0, pi) above the axis, pi on the negative x axis.  The
\* rounding of atan2's own result is left out: two vectors get the same
\* angle only when they point the same way.
atan2_class(dx, dy) ==
    IF dy < 0 THEN 0
    ELSE IF dy = 0 /\ dx >= 0 THEN 1
    ELSE IF dy > 0 THEN 2
    ELSE 3

atan2_less(dx1, dy1, dx2, dy2) ==
    LET c1 == atan2_class(dx1, dy1)
        c2 == atan2_class(dx2, dy2)
    IN  IF c1 # c2 THEN c1 < c2
        ELSE IF c1 \in {1, 3} THEN FALSE
        ELSE dx1 * dy2 - dy1 * dx2 > 0

\* order of the sort key (ang, dist_sq(pivot, p)) of lines 116-122
angle_and_dist_less(pivot_, a, b) ==
    LET ax == fsub(a[1], pivot_[1])
        ay == fsub(a[2], pivot_[2])
        bx == fsub(b[1], pivot_[1])
        by == fsub(b[2], pivot_[2])
    IN  \/ atan2_less(ax, ay, bx, by)
        \/ /\ ~atan2_less(bx, by, ax, ay)
           /\ dist_sq(pivot_, a) < dist_sq(pivot_, b)

sorted_others_with_pivot(pts, pivot_) ==
    LET less == [i \in 1..Len(pts) |-> [j \in 1..Len(pts) |->
                    angle_and_dist_less(pivot_, pts[i], pts[j])]]
    IN  StableSort(pts, less)

\* others = [p for p in pts if p != pivot]; others.sort(key=...)
sorted_others(pts, pivot_) ==
    LET sel(x) == x # pivot_
        rest == SelectSeq(pts, sel)
        less == [i \in 1..Len(rest) |-> [j \in 1..Len(rest) |->
                    angle_and_dist_less(pivot_, rest[i], rest[j])]]
    IN  StableSort(rest, less)

pop_cond_strict(stack_, p_) ==
    /\ Len(stack_) >= 2
    /\ orientation(stack_[Len(stack_) - 1], stack_[Len(stack_)], p_) < 0

\* while len(stack) >= 2 and orientation(stack[-2], stack[-1], p) <= 0
pop_cond(stack_, p_) ==
    /\ Len(stack_) >= 2
    /\ orientation(stack_[Len(stack_) - 1], stack_[Len(stack_)], p_) <= 0

\* ---------- the engines as functions of their argument ----------

RECURSIVE scan(_, _, _, _)
\* the for loop of lines 85-95 from index i on: the candidate it ends with
scan(pts, p_, q_, i) ==
    IF i > Len(pts) THEN q_
    ELSE scan(pts, p_, IF pts[i] = p_ THEN q_ ELSE scan_step(p_, q_, pts[i]), i + 1)

RECURSIVE wrap(_, _, _, _)
\* the while loop of lines 81-98 from the round that appends p_, cut off
\* after Len(pts) + 1 rounds
wrap(pts, start_, p_, hull_) ==
    LET appended == Append(hull_, p_)
        winner == scan(pts, p_, initial_candidate(pts, p_), 1)
    IN  IF winner = start_ \/ Len(appended) > Len(pts) THEN appended
        ELSE wrap(pts, start_, winner, appended)

\* lines 69-99
jarvis_march(points_) ==
    LET pts == dedup(points_)
    IN  IF shortcut(Len(pts)) THEN pts
        ELSE wrap(pts, min_by_xy(pts), min_by_xy(pts), <<>>)

RECURSIVE sweep(_, _, _)
\* the for loop of lines 126-129 from others[i] on: the final stack
sweep(others_, i, stack_) ==
    IF i > Len(others_) THEN stack_
    ELSE IF pop_cond(stack_, others_[i])
         THEN sweep(others_, i, SubSeq(stack_, 1, Len(stack_) - 1))
         ELSE sweep(others_, i + 1, Append(stack_, others_[i]))

\* lines 104-131
graham_scan(points_) ==
    LET pts == dedup(points_)
    IN  IF shortcut(Len(pts)) THEN pts
        ELSE sweep(sorted_others(pts, min_by_yx(pts)), 1, <<min_by_yx(pts)>>)

\* ---------- Include collinear boundary points ----------

edge_points_box(hull_vertices, all_points, i) ==
    LET m == Len(hull_vertices)
        a == hull_vertices[i]
        b == hull_vertices[(i % m) + 1]
        between(r) == r # a /\ r # b /\ on_segment(a, b, r)
        col == SelectSeq(all_points, between)
        nearer == [k \in 1..Len(col) |-> [j \in 1..Len(col) |->
                    dist_sq(a, col[k]) < dist_sq(a, col[j])]]
    IN  <<a>> \o StableSort(col, nearer)

edge_points_unsorted(hull_vertices, all_points, i) ==
    LET m == Len(hull_vertices)
        a == hull_vertices[i]
        b == hull_vertices[(i % m) + 1]
        between(r) == r # a /\ r # b /\ orientation(a, b, r) = 0 /\ on_segment(a, b, r)
    IN  <<a>> \o SelectSeq(all_points, between)

\* one iteration of the loop over the edges, lines 146-153
edge_points(hull_vertices, all_points, i) ==
    LET m == Len(hull_vertices)
        a == hull_vertices[i]
        b == hull_vertices[(i % m) + 1]
        between(r) == r # a /\ r # b /\ orientation(a, b, r) = 0 /\ on_segment(a, b, r)
        col == SelectSeq(all_points, between)
        nearer == [k \in 1..Len(col) |-> [j \in 1..Len(col) |->
                    dist_sq(a, col[k]) < dist_sq(a, col[j])]]
    IN  <<a>> \o StableSort(col, nearer)

RECURSIVE extend_from(_, _, _)
extend_from(hull_vertices, all_points, i) ==
    IF i > Len(hull_vertices) THEN <<>>
    ELSE edge_points(hull_vertices, all_points, i) \o extend_from(hull_vertices, all_points, i + 1)

include_closed(hull_vertices, all_points) ==
    IF hull_vertices = <<>> THEN <<>>
    ELSE Append(extend_from(hull_vertices, all_points, 1), hull_vertices[1])

include_collinear_on_edges(hull_vertices, all_points) ==
    IF hull_vertices = <<>> THEN <<>> ELSE extend_from(hull_vertices, all_points, 1)

\* ---------- state ----------

VARIABLES
    points,             \* the caller's raw point list
    uniq_points,        \* main: list(dict.fromkeys(points))
    pc,                 \* position in main and in the engine it is running
    pts_j,              \* jarvis_march: pts
    start,              \* jarvis_march: start
    p,                  \* jarvis_march: p
    q,                  \* jarvis_march: q
    ri,                 \* jarvis_march: index of r in the for loop (1-based)
    seen,               \* the points r the current round passed to orientation
    hull,               \* jarvis_march: hull
    jarvis_vertices,    \* main: result of jarvis_march
    pts_g,              \* graham_scan: pts
    pivot,              \* graham_scan: pivot
    others,             \* graham_scan: others, sorted
    gi,                 \* graham_scan: index of p in the for loop (1-based)
    stack,              \* graham_scan: stack
    popped,             \* the points removed by stack.pop(), in order
    pushed,             \* the points added by stack.append(p) in the loop, in order
    graham_vertices,    \* main: result of graham_scan
    exclude_collinear,  \* main: args.exclude_collinear
    jarvis_hull,        \* main: jarvis_hull
    graham_hull,        \* main: graham_hull
    pc_g,               \* position of graham_scan when it runs beside jarvis_march
    calls,              \* how many times the calls have been made again
    earlier             \* what the calls before returned

jvars == <<pts_j, start, p, q, ri, seen, hull, jarvis_vertices>>

gvars == <<pts_g, pivot, others, gi, stack, popped, pushed, graham_vertices>>

mvars == <<exclude_collinear, jarvis_hull, graham_hull>>

xvars == <<pc_g, calls, earlier>>

vars == <<points, uniq_points, pc, jvars, gvars, mvars, xvars>>

\* no engine has run yet
InitEngines ==
    /\ pts_j = <<>> /\ start = None /\ p = None /\ q = None /\ ri = 0
    /\ seen = <<>> /\ hull = <<>> /\ jarvis_vertices = <<>>
    /\ pts_g = <<>> /\ pivot = None /\ others = <<>> /\ gi = 0
    /\ stack = <<>> /\ popped = <<>> /\ pushed = <<>> /\ graham_vertices = <<>>
    /\ exclude_collinear = FALSE /\ jarvis_hull = <<>> /\ graham_hull = <<>>
    /\ calls = 0 /\ earlier = <<>>

\* main is about to run, one call after the other
InitLocals ==
    /\ uniq_points = <<>>
    /\ pc = "main"
    /\ pc_g = "idle"
    /\ InitEngines

Init ==
    /\ points \in Inputs
    /\ InitLocals

\* ---------- main, line 322 ----------

MainDedup ==
    /\ pc = "main"
    /\ uniq_points' = dedup(points)
    /\ pc' = "jarvis_march"
    /\ UNCHANGED <<points, jvars, gvars, mvars, xvars>>

\* ---------- jarvis_march ----------

\* the argument is taken as it is
JarvisEnterNoDedup ==
    /\ pc = "jarvis_march"
    /\ \E arg \in {points, uniq_points} :
        LET pts == arg
        IN  /\ pts_j' = pts
            /\ IF shortcut(Len(pts))
               THEN /\ jarvis_vertices' = pts
                    /\ pc' = "graham_scan"
                    /\ UNCHANGED <<start, p, hull>>
               ELSE /\ start' = min_by_xy(pts)
                    /\ hull' = <<>>
                    /\ p' = min_by_xy(pts)
                    /\ pc' = "jarvis_round"
                    /\ UNCHANGED jarvis_vertices
    /\ UNCHANGED <<points, uniq_points, q, ri, seen, gvars, mvars, xvars>>

\* hull is not emptied on entry
JarvisEnterKeepsHull ==
    /\ pc = "jarvis_march"
    /\ \E arg \in {points, uniq_points} :
        LET pts == dedup(arg)
        IN  /\ pts_j' = pts
            /\ IF shortcut(Len(pts))
               THEN /\ jarvis_vertices' = pts
                    /\ pc' = "graham_scan"
                    /\ UNCHANGED <<start, p>>
               ELSE /\ start' = min_by_xy(pts)
                    /\ p' = min_by_xy(pts)
                    /\ pc' = "jarvis_round"
                    /\ UNCHANGED jarvis_vertices
    /\ UNCHANGED <<points, uniq_points, q, ri, seen, hull, gvars, mvars, xvars>>

\* lines 70-80.  The engine is entered with the raw list (the entry point
\* called directly) or with main's deduplicated list (line 325).
JarvisEnter ==
    /\ pc = "jarvis_march"
    /\ \E arg \in {points, uniq_points} :
        LET pts == dedup(arg)
        IN  /\ pts_j' = pts
            /\ IF shortcut(Len(pts))
               THEN /\ jarvis_vertices' = pts
                    /\ pc' = "graham_scan"
                    /\ UNCHANGED <<start, p, hull>>
               ELSE /\ start' = min_by_xy(pts)
                    /\ hull' = <<>>
                    /\ p' = min_by_xy(pts)
                    /\ pc' = "jarvis_round"
                    /\ UNCHANGED jarvis_vertices
    /\ UNCHANGED <<points, uniq_points, q, ri, seen, gvars, mvars, xvars>>

\* lines 82-84: hull.append(p), the initial candidate, the for loop begins.
\* The wrap is cut off after Len(pts) + 1 rounds.
JarvisRound ==
    /\ pc = "jarvis_round"
    /\ Len(hull) <= Len(pts_j)
    /\ hull' = Append(hull, p)
    /\ q' = initial_candidate(pts_j, p)
    /\ ri' = 1
    /\ seen' = <<>>
    /\ pc' = "jarvis_scan"
    /\ UNCHANGED <<points, uniq_points, pts_j, start, p, jarvis_vertices, gvars, mvars, xvars>>

\* lines 85-95: one iteration of for r in pts
JarvisScan ==
    /\ pc = "jarvis_scan"
    /\ ri <= Len(pts_j)
    /\ LET r == pts_j[ri]
       IN  IF r = p
           THEN UNCHANGED <<q, seen>>
           ELSE /\ q' = scan_step(p, q, r)
                /\ seen' = Append(seen, r)
    /\ ri' = ri + 1
    /\ UNCHANGED <<points, uniq_points, pc, pts_j, start, p, hull, jarvis_vertices, gvars, mvars, xvars>>

\* lines 96-99: p = q; leave the loop and return hull when p == start
JarvisAdvance ==
    /\ pc = "jarvis_scan"
    /\ ri > Len(pts_j)
    /\ p' = q
    /\ IF q = start
       THEN /\ jarvis_vertices' = hull
            /\ pc' = "graham_scan"
       ELSE /\ pc' = "jarvis_round"
            /\ UNCHANGED jarvis_vertices
    /\ UNCHANGED <<points, uniq_points, pts_j, start, q, ri, seen, hull, gvars, mvars, xvars>>

\* ---------- graham_scan ----------

\* The steps of graham_scan are written over the position of the engine,
\* here before the step and there after it: pc when main calls the engines
\* one after the other, pc_g when graham_scan runs beside jarvis_march.

\* lines 105-125
GrahamEnterAt(here, there) ==
    /\ here = "graham_scan"
    /\ \E arg \in {points, uniq_points} :
        LET pts == dedup(arg)
        IN  /\ pts_g' = pts
            /\ popped' = <<>>
            /\ pushed' = <<>>
            /\ IF shortcut(Len(pts))
               THEN /\ graham_vertices' = pts
                    /\ there = "extend"
                    /\ UNCHANGED <<pivot, others, gi, stack>>
               ELSE /\ pivot' = min_by_yx(pts)
                    /\ others' = sorted_others(pts, min_by_yx(pts))
                    /\ stack' = <<min_by_yx(pts)>>
                    /\ gi' = 1
                    /\ there = "graham_loop"
                    /\ UNCHANGED graham_vertices

\* lines 127-128: one iteration of the while loop
GrahamPopAt(here) ==
    /\ here = "graham_loop"
    /\ gi <= Len(others)
    /\ pop_cond(stack, others[gi])
    /\ popped' = Append(popped, stack[Len(stack)])
    /\ stack' = SubSeq(stack, 1, Len(stack) - 1)
    /\ UNCHANGED <<pts_g, pivot, others, gi, pushed, graham_vertices>>

\* line 129: the while loop is over, stack.append(p)
GrahamPushAt(here) ==
    /\ here = "graham_loop"
    /\ gi <= Len(others)
    /\ ~pop_cond(stack, others[gi])
    /\ stack' = Append(stack, others[gi])
    /\ pushed' = Append(pushed, others[gi])
    /\ gi' = gi + 1
    /\ UNCHANGED <<pts_g, pivot, others, popped, graham_vertices>>

\* line 131: return stack
GrahamReturnAt(here, there) ==
    /\ here = "graham_loop"
    /\ gi > Len(others)
    /\ graham_vertices' = stack
    /\ there = "extend"
    /\ UNCHANGED <<pts_g, pivot, others, gi, stack, popped, pushed>>

GrahamEnter ==
    /\ GrahamEnterAt(pc, pc')
    /\ UNCHANGED <<points, uniq_points, jvars, mvars, xvars>>

GrahamPop ==
    /\ GrahamPopAt(pc)
    /\ UNCHANGED <<points, uniq_points, pc, jvars, mvars, xvars>>

GrahamPush ==
    /\ GrahamPushAt(pc)
    /\ UNCHANGED <<points, uniq_points, pc, jvars, mvars, xvars>>

GrahamReturn ==
    /\ GrahamReturnAt(pc, pc')
    /\ UNCHANGED <<points, uniq_points, jvars, mvars, xvars>>

\* ---------- main, lines 329-334 ----------

MainExtendJarvisOnly ==
    /\ pc = "extend"
    /\ \E flag \in BOOLEAN :
        /\ exclude_collinear' = flag
        /\ jarvis_hull' = IF flag THEN jarvis_vertices
                          ELSE include_collinear_on_edges(jarvis_vertices, uniq_points)
        /\ graham_hull' = graham_vertices
    /\ pc' = "done"
    /\ UNCHANGED <<points, uniq_points, jvars, gvars, xvars>>

MainExtend ==
    /\ pc = "extend"
    /\ \E flag \in BOOLEAN :
        /\ exclude_collinear' = flag
        /\ IF flag
           THEN /\ jarvis_hull' = jarvis_vertices
                /\ graham_hull' = graham_vertices
           ELSE /\ jarvis_hull' = include_collinear_on_edges(jarvis_vertices, uniq_points)
                /\ graham_hull' = include_collinear_on_edges(graham_vertices, uniq_points)
    /\ pc' = "done"
    /\ UNCHANGED <<points, uniq_points, jvars, gvars, xvars>>

Next ==
    \/ MainDedup
    \/ JarvisEnter
    \/ JarvisRound
    \/ JarvisScan
    \/ JarvisAdvance
    \/ GrahamEnter
    \/ GrahamPop
    \/ GrahamPush
    \/ GrahamReturn
    \/ MainExtend

Spec == Init /\ [][Next]_vars

\* ---------- the calls made again ----------

InitSmall ==
    /\ points \in InputsSmall
    /\ InitLocals

\* The caller keeps what the calls returned and makes the same calls again
\* with the same list, as the trials loop of lines 204-207 does.
CallAgain ==
    /\ pc = "done"
    /\ calls < MaxRepeat
    /\ calls' = calls + 1
    /\ earlier' = <<jarvis_vertices, graham_vertices, exclude_collinear, jarvis_hull, graham_hull>>
    /\ pc' = "main"
    /\ UNCHANGED <<points, uniq_points, jvars, gvars, mvars, pc_g>>

NextRepeat == Next \/ CallAgain

SpecRepeat == InitSmall /\ [][NextRepeat]_vars

\* ---------- jarvis_march and graham_scan side by side ----------

\* Both engines have been called with the same list and none has taken a
\* step.  pc is the position of jarvis_march ("graham_scan" once it has
\* returned), pc_g the position of graham_scan ("extend" once it has returned).
InitConc ==
    /\ points \in InputsSmall
    /\ uniq_points = dedup(points)
    /\ pc = "jarvis_march"
    /\ pc_g = "graham_scan"
    /\ InitEngines

ConcGrahamEnter ==
    /\ GrahamEnterAt(pc_g, pc_g')
    /\ UNCHANGED <<points, uniq_points, pc, jvars, mvars, calls, earlier>>

ConcGrahamPop ==
    /\ GrahamPopAt(pc_g)
    /\ UNCHANGED <<points, uniq_points, pc, jvars, mvars, xvars>>

\* the loop variable p of graham_scan is the p of jarvis_march
ConcGrahamPushSharedP ==
    /\ GrahamPushAt(pc_g)
    /\ p' = others[gi]
    /\ UNCHANGED <<points, uniq_points, pc, pts_j, start, q, ri, seen, hull,
                   jarvis_vertices, mvars, xvars>>

ConcGrahamPush ==
    /\ GrahamPushAt(pc_g)
    /\ UNCHANGED <<points, uniq_points, pc, jvars, mvars, xvars>>

ConcGrahamReturn ==
    /\ GrahamReturnAt(pc_g, pc_g')
    /\ UNCHANGED <<points, uniq_points, pc, jvars, mvars, calls, earlier>>

\* any engine that has not returned takes its next step
NextConc ==
    \/ JarvisEnter
    \/ JarvisRound
    \/ JarvisScan
    \/ JarvisAdvance
    \/ ConcGrahamEnter
    \/ ConcGrahamPop
    \/ ConcGrahamPush
    \/ ConcGrahamReturn

SpecConc == InitConc /\ [][NextConc]_vars

\* ---------- main on inputs with long collinear runs ----------

InitLine ==
    /\ points \in InputsLine
    /\ InitLocals

SpecLine == InitLine /\ [][Next]_vars

\* ---------- the entry points on non-finite input ----------

InitNonFinite ==
    /\ points \in InputsNonFinite
    /\ InitLocals

\* with at most 2 points both engines return through the shortcut
NextNonFinite ==
    \/ MainDedup
    \/ JarvisEnter
    \/ GrahamEnter
    \/ MainExtend

SpecNonFinite == InitNonFinite /\ [][NextNonFinite]_vars

\* ---------- main on inputs beyond the exact range ----------

\* longest of these input lists
FloatLen == 3

\* coordinates whose differences and products are not all exact, as it is
\* with decimal fractions in the doubles of the source; 36 - 1 and 38 - 1
\* round to the same value, as 0.9999999999999999 - 0.3 and 1.0 - 0.3 do
FloatCoord == {0, 1, 24, 36, 38}

FloatGrid == FloatCoord \X FloatCoord

InputsFloat == UNION {[1..k -> FloatGrid] : k \in 0..FloatLen}

InitFloat ==
    /\ points \in InputsFloat
    /\ InitLocals

SpecFloat == InitFloat /\ [][Next]_vars

\* ---------- vocabulary of the properties ----------

NoDup(s) == \A i, j \in 1..Len(s) : i # j => s[i] # s[j]

\* the distinct points of the input
Distinct == Range(points)

HasDuplicates == Len(points) > Cardinality(Distinct)

AllCollinear(S) == \A a, b, c \in S : orientation(a, b, c) = 0

JarvisReturned == pc \in {"graham_scan", "graham_loop", "extend", "done"}

BothReturned == pc \in {"extend", "done"}

\* x lies on the closed segment between two other points of S
OnSegmentOfOthers(x, S) ==
    \E a, b \in S \ {x} :
        a # b /\ orientation(a, b, x) = 0 /\ on_segment(a, b, x)

\* x lies inside or on a proper triangle of three other points of S
InTriangleOfOthers(x, S) ==
    \E a, b, c \in S \ {x} :
        /\ orientation(a, b, c) # 0
        /\ \/ /\ orientation(a, b, x) >= 0
              /\ orientation(b, c, x) >= 0
              /\ orientation(c, a, x) >= 0
           \/ /\ orientation(a, b, x) <= 0
              /\ orientation(b, c, x) <= 0
              /\ orientation(c, a, x) <= 0

ExtremePoints(S) == {x \in S : ~OnSegmentOfOthers(x, S) /\ ~InTriangleOfOthers(x, S)}

\* index of the first occurrence of x in s
FirstIndex(s, x) == CHOOSE i \in 1..Len(s) : s[i] = x /\ \A j \in 1..(i - 1) : s[j] # x

\* res holds the points of s once each, in the order of their first occurrence
IsFirstOccurrenceOrder(res, s) ==
    /\ NoDup(res)
    /\ Range(res) = Range(s)
    /\ \A i, j \in 1..Len(res) : i < j => FirstIndex(s, res[i]) < FirstIndex(s, res[j])

\* e runs along a line: the distance from its first element strictly grows
InOrderAlongLine(e) ==
    \A i, j \in 1..Len(e) : i < j => dist_sq(e[1], e[i]) < dist_sq(e[1], e[j])

\* ---------- properties ----------

\* C1: for every input list jarvis_march and graham_scan return sequences of
\* the same length holding the same set of points.
C1_SameHull ==
    BothReturned =>
        /\ Len(jarvis_vertices) = Len(graham_vertices)
        /\ Range(jarvis_vertices) = Range(graham_vertices)

C1_Witness ==
    /\ BothReturned
    /\ HasDuplicates
    /\ Len(jarvis_vertices) >= 3
    /\ jarvis_vertices # graham_vertices

\* C2: with at least 3 distinct points, each engine returns exactly the
\* extreme points of the input: the points that lie neither on the closed
\* segment between two other input points nor inside or on a triangle of
\* three other input points.
C2_ExtremePoints ==
    (BothReturned /\ Cardinality(Distinct) >= 3) =>
        /\ Range(jarvis_vertices) = ExtremePoints(Distinct)
        /\ Range(graham_vertices) = ExtremePoints(Distinct)

\* a point strictly inside the hull was left out
C2_Witness ==
    /\ BothReturned
    /\ Cardinality(Distinct) >= 3
    /\ \E x \in Distinct :
        /\ InTriangleOfOthers(x, Distinct)
        /\ ~OnSegmentOfOthers(x, Distinct)
        /\ x \notin Range(jarvis_vertices)
        /\ x \notin Range(graham_vertices)

\* C3: the wrap of jarvis_march terminates.  The number of rounds (one
\* hull.append each) never exceeds the number n of distinct points, each round
\* passes every point other than p to the comparison exactly once, and the
\* engine returns with p back at start and one hull element per round.
C3_WrapTerminates ==
    /\ Len(hull) <= Len(pts_j)
    /\ (pc = "jarvis_scan" /\ ri > Len(pts_j)) =>
            /\ NoDup(seen)
            /\ Range(seen) = Range(pts_j) \ {p}
            /\ Len(seen) = Len(pts_j) - 1
    /\ (JarvisReturned /\ Len(pts_j) >= 3) =>
            /\ p = start
            /\ jarvis_vertices = hull
            /\ Len(jarvis_vertices) <= Len(pts_j)

\* the wrap returned on an all-collinear input of at least 3 distinct points
C3_Witness ==
    /\ JarvisReturned
    /\ Len(pts_j) >= 3
    /\ AllCollinear(Range(pts_j))
    /\ p = start
    /\ Len(jarvis_vertices) = 2

\* C4: neither returned sequence holds a point twice, whatever the input.
C4_NoRepeatedVertex ==
    BothReturned => NoDup(jarvis_vertices) /\ NoDup(graham_vertices)

C4_Witness ==
    /\ BothReturned
    /\ HasDuplicates
    /\ Cardinality(Distinct) >= 3
    /\ points[1] \in Range(jarvis_vertices)
    /\ \E i \in 2..Len(points) : points[i] = points[1]

\* C5: include_collinear_on_edges applied to an engine's result and the
\* deduplicated input never returns a point twice.
C5_ExtensionNoRepeat ==
    (pc = "done" /\ ~exclude_collinear) =>
        NoDup(jarvis_hull) /\ NoDup(graham_hull)

\* C6: for k >= 3 distinct points on one line, include_collinear_on_edges on
\* the two-endpoint hull returns every input point exactly once, in their
\* order along the line.
C6_CollinearExtension ==
    (/\ pc = "done"
     /\ ~exclude_collinear
     /\ Cardinality(Distinct) >= 3
     /\ AllCollinear(Distinct)) =>
        /\ Len(jarvis_hull) = Cardinality(Distinct)
        /\ Range(jarvis_hull) = Distinct
        /\ InOrderAlongLine(jarvis_hull)
        /\ Len(graham_hull) = Cardinality(Distinct)
        /\ Range(graham_hull) = Distinct
        /\ InOrderAlongLine(graham_hull)

\* C7: for at least 3 distinct points that are all collinear, each engine
\* returns exactly the two endpoints of the line, and graham_scan pops every
\* point strictly between them.
C7_CollinearEndpoints ==
    (BothReturned /\ Cardinality(Distinct) >= 3 /\ AllCollinear(Distinct)) =>
        /\ Len(jarvis_vertices) = 2
        /\ Len(graham_vertices) = 2
        /\ jarvis_vertices[1] # jarvis_vertices[2]
        /\ graham_vertices[1] # graham_vertices[2]
        /\ Range(jarvis_vertices) \subseteq Distinct
        /\ Range(graham_vertices) \subseteq Distinct
        /\ \A x \in Distinct :
            /\ on_segment(jarvis_vertices[1], jarvis_vertices[2], x)
            /\ on_segment(graham_vertices[1], graham_vertices[2], x)
            /\ x \notin Range(graham_vertices) => x \in Range(popped)

C7_Witness ==
    /\ BothReturned
    /\ Cardinality(Distinct) >= 3
    /\ AllCollinear(Distinct)
    /\ Len(popped) >= 1
    /\ Len(graham_vertices) = 2

\* C8: with at most 2 distinct points both engines return the deduplicated
\* input in first-occurrence order, whatever the start or pivot would be.
C8_SmallInputVerbatim ==
    (BothReturned /\ Cardinality(Distinct) <= 2) =>
        /\ IsFirstOccurrenceOrder(jarvis_vertices, points)
        /\ IsFirstOccurrenceOrder(graham_vertices, points)

\* two distinct points, given with repeats, the first of them neither the
\* leftmost nor the lowest
C8_Witness ==
    /\ BothReturned
    /\ Cardinality(Distinct) = 2
    /\ HasDuplicates
    /\ Len(jarvis_vertices) = 2
    /\ key_xy_less(jarvis_vertices[2], jarvis_vertices[1])
    /\ key_yx_less(graham_vertices[2], graham_vertices[1])

\* C9: for k >= 1 copies of one point both engines return that point alone.
C9_IdenticalPoints ==
    (BothReturned /\ Len(points) >= 1 /\ Cardinality(Distinct) = 1) =>
        /\ jarvis_vertices = <<points[1]>>
        /\ graham_vertices = <<points[1]>>

C9_Witness ==
    /\ BothReturned
    /\ Len(points) >= 3
    /\ Cardinality(Distinct) = 1
    /\ Len(jarvis_vertices) = 1
    /\ Len(graham_vertices) = 1

\* C10: every element of either returned sequence is a point of the input.
C10_NoFabricatedPoint ==
    (BothReturned /\ Len(points) >= 1) =>
        /\ Range(jarvis_vertices) \subseteq Range(points)
        /\ Range(graham_vertices) \subseteq Range(points)

C10_Witness ==
    /\ BothReturned
    /\ Cardinality(Distinct) >= 3
    /\ Len(graham_vertices) >= 3
    /\ pivot \in Range(points)
    /\ graham_vertices[1] = pivot

\* ---------- the stepwise engines compute the functions ----------

\* what the step-by-step run of an engine returns is the value of the engine
\* as a function of the input list
StepsComputeFunctions ==
    /\ JarvisReturned => jarvis_vertices = jarvis_march(points)
    /\ BothReturned => graham_vertices = graham_scan(points)

\* s with the elements at i and i + 1 exchanged
SwapAt(s, i) ==
    [k \in 1..Len(s) |-> IF k = i THEN s[i + 1] ELSE IF k = i + 1 THEN s[i] ELSE s[k]]

\* C11: idempotence.  Running an engine on its own result returns the same
\* set of points.
C11_Idempotent ==
    (pc = "done") =>
        /\ Range(jarvis_march(jarvis_vertices)) = Range(jarvis_vertices)
        /\ Range(graham_scan(graham_vertices)) = Range(graham_vertices)

\* the first run dropped a point and returned at least 3, so the second run
\* wraps and sweeps again
C11_Witness ==
    /\ pc = "done"
    /\ Len(jarvis_vertices) >= 3
    /\ Cardinality(Distinct) > Len(jarvis_vertices)
    /\ jarvis_march(jarvis_vertices) = jarvis_vertices
    /\ Len(graham_scan(graham_vertices)) = Len(graham_vertices)

\* C12: input-order independence.  With at least 3 distinct points, exchanging
\* two neighbouring elements of the input list changes neither returned
\* sequence; every permutation is a product of such exchanges and every list
\* is an input, so permuted inputs give identical sequences.
C12_OrderIndependent ==
    (pc = "done" /\ Cardinality(Distinct) >= 3) =>
        \A i \in 1..(Len(points) - 1) :
            /\ jarvis_march(SwapAt(points, i)) = jarvis_vertices
            /\ graham_scan(SwapAt(points, i)) = graham_vertices

\* the first element of the list, which seeds the candidate q, is not the
\* start, and the list is not in the order of the angular sort
C12_Witness ==
    /\ pc = "done"
    /\ Cardinality(Distinct) >= 3
    /\ Len(jarvis_vertices) >= 3
    /\ points[1] # start
    /\ points[1] # pivot
    /\ \E i \in 1..(Len(points) - 1) : SwapAt(points, i) # points
    /\ SelectSeq(uniq_points, LAMBDA x : x # pivot) # others

\* C13: an input holding a point with a non-finite coordinate is rejected at
\* the entry point with an input-validation error: the engine goes no further
\* than its entry, neither into the wrap or the scan nor to a normal return.
C13_NonFiniteRejected ==
    (\E i \in 1..Len(points) : NonFinite(points[i])) =>
        pc \in {"main", "jarvis_march", "invalid_input"}

\* the elements of the cyclic sequence e at which the orientation kernel sees
\* a turn: orientation(predecessor, x, successor) is not collinear
TurningPoints(e) ==
    LET n == Len(e)
        turns(i) == orientation(e[((i + n - 2) % n) + 1], e[i], e[(i % n) + 1]) # 0
        kept == SelectSeq([i \in 1..n |-> i], turns)
    IN  [k \in 1..Len(kept) |-> e[kept[k]]]

\* C14 as claimed: for every input and either engine, the turning points of
\* the extended sequence are exactly the engine's sequence.
C14_RoundTripEveryInput ==
    (pc = "done" /\ ~exclude_collinear) =>
        /\ TurningPoints(jarvis_hull) = jarvis_vertices
        /\ TurningPoints(graham_hull) = graham_vertices

\* C14 amended: for every input whose distinct points are not all collinear
\* and either engine, the turning points of the extended sequence are exactly
\* the engine's sequence.
C14_RoundTrip ==
    (pc = "done" /\ ~exclude_collinear /\ ~AllCollinear(Distinct)) =>
        /\ TurningPoints(jarvis_hull) = jarvis_vertices
        /\ TurningPoints(graham_hull) = graham_vertices

\* the extension inserted a point and the filter removed it again
C14_Witness ==
    /\ pc = "done"
    /\ ~exclude_collinear
    /\ ~AllCollinear(Distinct)
    /\ Len(jarvis_hull) > Len(jarvis_vertices)
    /\ Len(graham_hull) > Len(graham_vertices)
    /\ TurningPoints(jarvis_hull) = jarvis_vertices

\* the points of all_points that edge i of hull_vertices has to show: other
\* than its two ends, collinear with them and on the segment
EdgeSet(hull_vertices, all_points, i) ==
    LET a == hull_vertices[i]
        b == hull_vertices[(i % Len(hull_vertices)) + 1]
    IN  {r \in Range(all_points) :
            r # a /\ r # b /\ orientation(a, b, r) = 0 /\ on_segment(a, b, r)}

\* where vertex i stands in the extended sequence: after the i - 1 vertices
\* before it and after the points of their edges
Offset(hull_vertices, all_points, i) ==
    i + Cardinality({kr \in (1..(i - 1)) \X Range(all_points) :
                        kr[2] \in EdgeSet(hull_vertices, all_points, kr[1])})

\* e is, edge by edge, the vertex followed by exactly the points of the edge
\* in strictly ascending squared distance from the vertex
EmitsEdgeByEdge(e, hull_vertices, all_points) ==
    LET m == Len(hull_vertices)
    IN  /\ Len(e) = Offset(hull_vertices, all_points, m + 1) - 1
        /\ \A i \in 1..m :
            LET o == Offset(hull_vertices, all_points, i)
                c == Cardinality(EdgeSet(hull_vertices, all_points, i))
            IN  /\ e[o] = hull_vertices[i]
                /\ {e[o + k] : k \in 1..c} = EdgeSet(hull_vertices, all_points, i)
                /\ \A k \in 1..(c - 1) :
                    dist_sq(hull_vertices[i], e[o + k]) < dist_sq(hull_vertices[i], e[o + k + 1])

BoundaryPoints(S) ==
    {x \in S : \E a \in S : \E b \in S \ {a} :
        /\ \A t \in S : orientation(a, b, t) >= 0
        /\ orientation(a, b, x) = 0
        /\ on_segment(a, b, x)}

\* C16: with at least 3 distinct points that are not all collinear, the
\* extended sequence of either engine holds exactly the input points on the
\* boundary of the hull polygon.
C16_ExactlyBoundary ==
    (/\ pc = "done"
     /\ ~exclude_collinear
     /\ Cardinality(Distinct) >= 3
     /\ ~AllCollinear(Distinct)) =>
        /\ Range(jarvis_hull) = BoundaryPoints(Distinct)
        /\ Range(graham_hull) = BoundaryPoints(Distinct)

\* a point between two vertices was emitted for both engines
C16_Witness ==
    /\ pc = "done"
    /\ ~exclude_collinear
    /\ ~AllCollinear(Distinct)
    /\ Range(jarvis_hull) # Range(jarvis_vertices)
    /\ Range(graham_hull) # Range(graham_vertices)
    /\ Range(jarvis_hull) = Distinct

RECURSIVE IsSubsequence(_, _)
\* h can be obtained from e by deleting elements
IsSubsequence(h, e) ==
    IF h = <<>> THEN TRUE
    ELSE IF e = <<>> THEN FALSE
    ELSE IF Head(h) = Head(e) THEN IsSubsequence(Tail(h), Tail(e))
    ELSE IsSubsequence(h, Tail(e))

\* e is the open extension of the vertex sequence h
IsOpenExtension(e, h) ==
    /\ Len(e) >= Len(h)
    /\ h # <<>> => e[1] = h[1]
    /\ IsSubsequence(h, e)
    /\ Len(e) >= 2 => e[Len(e)] # e[1]

\* C17: the sequence returned by include_collinear_on_edges begins with the
\* first hull vertex, holds the hull vertices as a subsequence in their order,
\* is at least as long as the hull, and does not end with its first element
\* when it has 2 elements or more.
C17_OpenSequence ==
    (pc = "done" /\ ~exclude_collinear) =>
        /\ IsOpenExtension(jarvis_hull, jarvis_vertices)
        /\ IsOpenExtension(graham_hull, graham_vertices)

\* the last edge, back to the first vertex, holds a point
C17_Witness ==
    /\ pc = "done"
    /\ ~exclude_collinear
    /\ Len(jarvis_vertices) >= 3
    /\ jarvis_hull[Len(jarvis_hull)] \notin Range(jarvis_vertices)
    /\ graham_hull[Len(graham_hull)] \notin Range(graham_vertices)

\* C18: main extends both engines' results or neither, with the same
\* deduplicated point list, and the two final sequences hold the same set of
\* points.
C18_SameExtension ==
    (pc = "done") =>
        /\ Range(jarvis_hull) = Range(graham_hull)
        /\ IF exclude_collinear
           THEN jarvis_hull = jarvis_vertices /\ graham_hull = graham_vertices
           ELSE /\ jarvis_hull = include_collinear_on_edges(jarvis_vertices, dedup(points))
                /\ graham_hull = include_collinear_on_edges(graham_vertices, dedup(points))

\* both were extended, by a point between two vertices, and differ as
\* sequences
C18_Witness ==
    /\ pc = "done"
    /\ ~exclude_collinear
    /\ ~AllCollinear(Distinct)
    /\ Len(jarvis_hull) > Len(jarvis_vertices)
    /\ jarvis_hull # graham_hull

\* C19: the three functions are stateless.  No step changes the caller's
\* list, the extension changes neither the hull nor the point list it is
\* given, and calls made again with the same list, after all three functions
\* have run, return what they returned before.
C19_Stateless ==
    /\ [][/\ points' = points
          /\ pc = "extend" =>
                /\ jarvis_vertices' = jarvis_vertices
                /\ graham_vertices' = graham_vertices
                /\ uniq_points' = uniq_points]_vars
    /\ [](calls >= 1 =>
            /\ JarvisReturned => jarvis_vertices = earlier[1]
            /\ BothReturned => graham_vertices = earlier[2]
            /\ (pc = "done" /\ ~exclude_collinear /\ ~earlier[3]) =>
                    /\ jarvis_hull = earlier[4]
                    /\ graham_hull = earlier[5])

\* the second round of calls wrapped, swept and extended again
C19_Witness ==
    /\ calls >= 1
    /\ pc = "done"
    /\ ~exclude_collinear
    /\ ~earlier[3]
    /\ Len(earlier[1]) >= 2
    /\ Len(pts_j) >= 3
    /\ Len(earlier[4]) > Len(earlier[1])
    /\ jarvis_hull = earlier[4]

\* C20: with the steps of jarvis_march and graham_scan on the same list
\* interleaved in any order, each engine returns what it returns when it runs
\* alone.
C20_InterleavingFree ==
    /\ JarvisReturned => jarvis_vertices = jarvis_march(points)
    /\ pc_g = "extend" => graham_vertices = graham_scan(points)

\* graham_scan returned, with a pop behind it, while jarvis_march was in the
\* middle of a scan
C20_Witness ==
    /\ pc_g = "extend"
    /\ pc = "jarvis_scan"
    /\ Len(hull) >= 2
    /\ ri >= 2
    /\ Len(popped) >= 1
    /\ graham_vertices = graham_scan(points)

\* C21: deduplication returns a list without two equal points, holding the
\* points of the input in the order of their first occurrence, and applying
\* it to its own result changes nothing: the list an engine derives from
\* main's deduplicated list, or from the raw list, is main's list.
C21_Dedup ==
    /\ pc # "main" =>
            /\ NoDup(uniq_points)
            /\ Range(uniq_points) = Range(points)
            /\ IsFirstOccurrenceOrder(uniq_points, points)
            /\ dedup(uniq_points) = uniq_points
    /\ pc \notin {"main", "jarvis_march"} => pts_j = uniq_points
    /\ pc \in {"graham_loop", "extend", "done"} => pts_g = uniq_points

\* a point comes back after another point, and the first occurrences are in
\* neither sorted order
C21_Witness ==
    /\ pc = "done"
    /\ Len(points) >= 4
    /\ points[3] = points[1]
    /\ points[2] # points[1]
    /\ Len(uniq_points) = 3
    /\ uniq_points[1] = points[1]
    /\ uniq_points[3] = points[4]
    /\ key_xy_less(uniq_points[2], uniq_points[1])
    /\ key_yx_less(uniq_points[3], uniq_points[2])

\* C22: with at least 3 distinct points, the first element of jarvis_march's
\* result is the input point with the smallest x and, among those, the
\* smallest y, and the first element of graham_scan's result is the input
\* point with the smallest y and, among those, the smallest x.
C22_FirstElement ==
    (BothReturned /\ Cardinality(Distinct) >= 3) =>
        /\ jarvis_vertices[1] \in Distinct
        /\ \A x \in Distinct \ {jarvis_vertices[1]} :
            \/ jarvis_vertices[1][1] < x[1]
            \/ (jarvis_vertices[1][1] = x[1] /\ jarvis_vertices[1][2] < x[2])
        /\ graham_vertices[1] \in Distinct
        /\ \A x \in Distinct \ {graham_vertices[1]} :
            \/ graham_vertices[1][2] < x[2]
            \/ (graham_vertices[1][2] = x[2] /\ graham_vertices[1][1] < x[1])

\* the two engines start at different points, neither is the first of the
\* list, and each minimum is decided by its second coordinate
C22_Witness ==
    /\ BothReturned
    /\ Cardinality(Distinct) >= 3
    /\ jarvis_vertices[1] # graham_vertices[1]
    /\ points[1] \notin {jarvis_vertices[1], graham_vertices[1]}
    /\ \E x \in Distinct : x[1] = jarvis_vertices[1][1] /\ x[2] > jarvis_vertices[1][2]
    /\ \E x \in Distinct : x[2] = graham_vertices[1][2] /\ x[1] > graham_vertices[1][1]

\* C23: at the end of the scan of every round of jarvis_march the candidate q
\* differs from p, no point of the list lies strictly counter-clockwise of
\* p->q, and every point of the list other than p that is collinear with p
\* and q is no farther from p than q; the scan ends with the same q from
\* whichever point other than p it starts, and the lists cover every order.
C23_ScanWinner ==
    (pc = "jarvis_scan" /\ ri > Len(pts_j)) =>
        /\ q # p
        /\ q \in Range(pts_j)
        /\ \A r \in Range(pts_j) : orientation(p, q, r) # 1
        /\ \A r \in Range(pts_j) \ {p} :
            orientation(p, q, r) = 0 => dist_sq(p, r) <= dist_sq(p, q)
        /\ \A q0 \in Range(pts_j) \ {p} : scan(pts_j, p, q0, 1) = q

\* a later round ended on a ray that holds a nearer point, away from the
\* candidate the scan started with, which was scanned after q
C23_Witness ==
    /\ pc = "jarvis_scan"
    /\ ri > Len(pts_j)
    /\ Len(hull) >= 2
    /\ initial_candidate(pts_j, p) # q
    /\ \E r \in Range(pts_j) \ {p, q} :
        /\ orientation(p, q, r) = 0
        /\ dist_sq(p, r) < dist_sq(p, q)
        /\ FirstIndex(pts_j, r) > FirstIndex(pts_j, q)

\* the element after h[i] in the cycle h
CyclicNext(h, i) == h[(i % Len(h)) + 1]

\* every three cyclically consecutive elements of h turn the way o
TurnsAll(h, o) ==
    \A i \in 1..Len(h) :
        orientation(h[i], CyclicNext(h, i), CyclicNext(h, (i % Len(h)) + 1)) = o

Reverse(h) == [i \in 1..Len(h) |-> h[Len(h) + 1 - i]]

\* b is a traversed from some other starting element
IsRotation(a, b) ==
    /\ Len(a) = Len(b)
    /\ \E k \in 0..(Len(a) - 1) :
        \A i \in 1..Len(a) : b[i] = a[((i - 1 + k) % Len(a)) + 1]

NonDegenerate == Cardinality(Distinct) >= 3 /\ ~AllCollinear(Distinct)

\* C24: with at least 3 distinct points that are not all collinear, the
\* sequence graham_scan returns starts at the pivot and is in strict
\* counter-clockwise order: every three cyclically consecutive elements turn
\* left, and no input point lies to the right of any cyclic edge.
C24_GrahamCounterClockwise ==
    (BothReturned /\ NonDegenerate) =>
        /\ Len(graham_vertices) >= 3
        /\ graham_vertices[1] = pivot
        /\ TurnsAll(graham_vertices, 1)
        /\ \A i \in 1..Len(graham_vertices) : \A r \in Distinct :
            orientation(graham_vertices[i], CyclicNext(graham_vertices, i), r) >= 0

\* a triangle with an input point on one of its edges, which the scan popped
C24_Witness ==
    /\ BothReturned
    /\ NonDegenerate
    /\ Len(graham_vertices) = 3
    /\ Len(popped) >= 1
    /\ \E r \in Distinct \ Range(graham_vertices) :
        \E i \in 1..3 :
            orientation(graham_vertices[i], CyclicNext(graham_vertices, i), r) = 0

\* C25: with at least 3 distinct points that are not all collinear, the
\* sequence jarvis_march returns is in strict clockwise order: every three
\* cyclically consecutive elements turn right and no input point lies to the
\* left of any cyclic edge, so that read backwards it is graham_scan's
\* sequence from another starting element.
C25_JarvisClockwise ==
    (BothReturned /\ NonDegenerate) =>
        /\ Len(jarvis_vertices) >= 3
        /\ TurnsAll(jarvis_vertices, -1)
        /\ \A i \in 1..Len(jarvis_vertices) : \A r \in Distinct :
            orientation(jarvis_vertices[i], CyclicNext(jarvis_vertices, i), r) <= 0
        /\ IsRotation(Reverse(jarvis_vertices), graham_vertices)

\* a quadrilateral whose backward reading has to be turned to give
\* graham_scan's sequence
C25_Witness ==
    /\ BothReturned
    /\ NonDegenerate
    /\ Len(jarvis_vertices) = 4
    /\ TurnsAll(graham_vertices, 1)
    /\ Reverse(jarvis_vertices)[4] # graham_vertices[4]

GrahamSorted == pc \in {"graham_loop", "extend", "done"} /\ Len(pts_g) >= 3

\* C26: graham_scan processes the points other than the pivot in ascending
\* polar angle around the pivot, any two of them on one ray from the pivot
\* (orientation(pivot, a, b) = 0) nearer-first, and no two points of one ray
\* are on the stack together.
C26_NearestFirst ==
    GrahamSorted =>
        /\ \A i, j \in 1..Len(others) :
            i < j =>
                /\ orientation(pivot, others[i], others[j]) >= 0
                /\ orientation(pivot, others[i], others[j]) = 0 =>
                        dist_sq(pivot, others[i]) < dist_sq(pivot, others[j])
        /\ \A i, j \in 2..Len(stack) :
            i # j => orientation(pivot, stack[i], stack[j]) # 0

\* C27: in the scan of graham_scan every point other than the pivot is pushed
\* exactly once and popped at most once, the pivot is neither pushed again
\* nor popped, and the scan pops at most n - 2 times for n distinct points.
C27_PushOncePopOnce ==
    GrahamSorted =>
        /\ NoDup(pushed)
        /\ Range(pushed) \subseteq Range(pts_g) \ {pivot}
        /\ pushed = SubSeq(others, 1, Len(pushed))
        /\ BothReturned => Range(pushed) = Range(pts_g) \ {pivot}
        /\ NoDup(popped)
        /\ Range(popped) \subseteq Range(pushed)
        /\ Len(stack) + Len(popped) = 1 + Len(pushed)
        /\ Len(popped) <= Len(pts_g) - 2

\* the scan returned after n - 2 pops, more than one
C27_Witness ==
    /\ BothReturned
    /\ Len(pts_g) = 4
    /\ Len(pushed) = 3
    /\ Len(popped) = 2
    /\ Len(graham_vertices) = 2

\* C28: at every point of the scan of graham_scan the stack is not empty, its
\* bottom element is the pivot, it holds no point twice, and every three
\* consecutive stack elements turn left.
C28_StackInvariant ==
    GrahamSorted =>
        /\ Len(stack) >= 1
        /\ stack[1] = pivot
        /\ NoDup(stack)
        /\ \A k \in 1..(Len(stack) - 2) :
            orientation(stack[k], stack[k + 1], stack[k + 2]) = 1

\* in the middle of the scan, after a pop, with three elements on the stack
C28_Witness ==
    /\ pc = "graham_loop"
    /\ gi <= Len(others)
    /\ Len(popped) >= 1
    /\ Len(stack) >= 3
    /\ stack[Len(stack)] = pushed[Len(pushed)]

\* C29: each engine deduplicates its argument itself.  Entered with the raw
\* list or with main's deduplicated list, jarvis_march and graham_scan return
\* the sequence they return on the deduplicated list, which is also their
\* value on the raw list.
C29_EngineDedups ==
    /\ JarvisReturned =>
            /\ jarvis_vertices = jarvis_march(dedup(points))
            /\ jarvis_march(points) = jarvis_march(dedup(points))
    /\ BothReturned =>
            /\ graham_vertices = graham_scan(dedup(points))
            /\ graham_scan(points) = graham_scan(dedup(points))

\* the list starts with the same point twice, which would seed the candidate
\* q with p itself, and the repeated point is a vertex of a triangle
C29_Witness ==
    /\ BothReturned
    /\ Len(points) = 4
    /\ points[1] = points[2]
    /\ Cardinality(Distinct) = 3
    /\ Len(jarvis_vertices) = 3
    /\ Len(graham_vertices) = 3
    /\ points[1] = start

\* the cross product (b - a) x (c - a) without rounding
ExactCross(a, b, c) ==
    (b[1] - a[1]) * (c[2] - a[2]) - (b[2] - a[2]) * (c[1] - a[1])

Sign(n) == IF n > 0 THEN 1 ELSE IF n < 0 THEN -1 ELSE 0

\* orientation is one of 1, -1, 0
C30_Range ==
    \A a \in Distinct : \A b \in Distinct : \A c \in Distinct :
        orientation(a, b, c) \in {1, -1, 0}

\* orientation is the sign of the cross product computed without rounding
C30_ExactSign ==
    \A a \in Distinct : \A b \in Distinct : \A c \in Distinct :
        orientation(a, b, c) = Sign(ExactCross(a, b, c))

\* swapping the last two arguments negates the result
C30_Antisymmetric ==
    \A a \in Distinct : \A b \in Distinct : \A c \in Distinct :
        orientation(a, b, c) = 0 - orientation(a, c, b)

\* rotating the arguments leaves the result as it is
C30_Cyclic ==
    \A a \in Distinct : \A b \in Distinct : \A c \in Distinct :
        orientation(a, b, c) = orientation(b, c, a)

\* two equal arguments give 0
C30_ZeroOnEqual ==
    \A a \in Distinct : \A b \in Distinct :
        /\ orientation(a, a, b) = 0
        /\ orientation(a, b, a) = 0
        /\ orientation(a, b, b) = 0

\* C30: on the points of the input, orientation(a, b, c) is 1, -1 or 0, is the
\* sign of the exact cross product (b - a) x (c - a), changes sign when b and c
\* are swapped, is unchanged by a cyclic rotation of a, b, c, and is 0 when
\* two of its arguments are equal.
C30_OrientationSign ==
    /\ C30_Range
    /\ C30_ExactSign
    /\ C30_Antisymmetric
    /\ C30_Cyclic
    /\ C30_ZeroOnEqual

====
